---- MODULE Spec2Model ----
(***************************************************************************)
(* State-machine model of the inventory planning core of inventory-serde:  *)
(* InventorySystem (algorithms.rs) with Product and InventorySnapshot      *)
(* (models.rs).                                                            *)
(*                                                                         *)
(* Numbers.  u32 / i32 quantities are integers; the inputs are small, so   *)
(* no u32 operation of the code overflows within the bounds.  f32 / f64    *)
(* and rust_decimal values are modelled by exact rationals <<n, d>> with   *)
(* d > 0 in lowest terms (floating-point rounding is monotone and the      *)
(* rationals met here are far apart compared to an ulp).  Timestamps are   *)
(* whole days counted from 1 January of a year 0 made of 365-day years.    *)
(***************************************************************************)
EXTENDS Integers, Sequences, FiniteSets, TLC

\* ------------------------------------------------------------------ bounds
\* largest stock figure handed to calculate_urgency
MaxStock == 5
\* longest series and largest weekly demand handed to calculate_trend
MaxWeeks == 4
MaxDemand == 2
\* longest transaction log explored by the forecasting specification
MaxHistory == 3
MaxPeriods == 2
MaxOrdered == 3
\* longest transaction log explored (Vec<Transaction> is unbounded)
MaxTx == 2
\* largest quantity_on_hand given to add_inventory
MaxQty == 1
\* largest stock threshold (minimum_stock, reorder_point) of a product
MaxLevel == 1

\* ------------------------------------------------------------- input sets
ProductIds == {"p1", "p2"}
LocationIds == {"l1", "l2"}
LeadTimes == {7}
Levels == 0 .. MaxLevel
TransactionTypes == {"Receipt", "Shipment", "Adjustment", "Transfer", "Return"}
\* timestamps: two days of week 1 and the first day of week 2
Days == {0, 7}

NoProduct == [absent |-> TRUE]
NoSnapshot == [absent |-> TRUE]
NoLineItem == [absent |-> TRUE]
None == "None"
\* last_movement: None, among timestamps counted in days from 0
NoMovement == -1

VARIABLES
    products,      \* InventorySystem.products: product id -> Product or NoProduct
    iter_order,    \* the order in which the products HashMap iterates (seq of ids)
    inventory,     \* InventorySystem.inventory: <<product, location>> -> snapshot
    transactions,  \* InventorySystem.transactions
    line_item,     \* an OrderLineItem (models/order.rs), or NoLineItem
    result         \* the last call: [op, ret], ret being Ok / Err / Panic

vars == <<products, iter_order, inventory, transactions, line_item, result>>

\* ----------------------------------------------------------- arithmetic
Abs(x) == IF x < 0 THEN -x ELSE x
Max(a, b) == IF a >= b THEN a ELSE b
Min(a, b) == IF a <= b THEN a ELSE b

RECURSIVE GCD(_, _)
GCD(a, b) == IF b = 0 THEN a ELSE GCD(b, a % b)

\* the rational n/d (d > 0) in lowest terms
Rat(n, d) == LET g == GCD(Abs(n), d) IN <<n \div g, d \div g>>
RatLeq(x, y) == x[1] * y[2] <= y[1] * x[2]
RatLess(x, y) == x[1] * y[2] < y[1] * x[2]

\* u32::saturating_sub
saturating_sub(a, b) == IF a >= b THEN a - b ELSE 0

RECURSIVE SeqSum(_)
SeqSum(s) == IF s = <<>> THEN 0 ELSE Head(s) + SeqSum(Tail(s))

RECURSIVE SetSum(_, _)
\* sum of f[x] over the finite set S
SetSum(f, S) ==
    IF S = {} THEN 0
    ELSE LET x == CHOOSE y \in S : TRUE IN f[x] + SetSum(f, S \ {x})

\* least power of two h with h * h * d > n  (n >= 0, d > 0)
RECURSIVE SqrtUpper(_, _, _)
SqrtUpper(h, n, d) == IF h * h * d > n THEN h ELSE SqrtUpper(2 * h, n, d)

RECURSIVE SqrtSearch(_, _, _, _)
\* the k in lo .. hi-1 with k*k*d <= n < (k+1)*(k+1)*d
SqrtSearch(lo, hi, n, d) ==
    IF hi - lo <= 1 THEN lo
    ELSE LET mid == (lo + hi) \div 2
         IN IF mid * mid * d <= n THEN SqrtSearch(mid, hi, n, d)
            ELSE SqrtSearch(lo, mid, n, d)

\* floor(sqrt(n / d))
FloorSqrt(n, d) == SqrtSearch(0, SqrtUpper(1, n, d), n, d)

\* Decimal::round of sqrt(n / d): nearest integer, a midpoint goes to the
\* even neighbour (rust_decimal rounds half to even)
RoundSqrt(n, d) ==
    LET k == FloorSqrt(n, d)
        mid == (2 * k + 1) * (2 * k + 1) * d
    IN IF 4 * n < mid THEN k
       ELSE IF 4 * n > mid THEN k + 1
       ELSE IF k % 2 = 0 THEN k ELSE k + 1

\* ------------------------------------------------------------ timestamps
year(t) == t \div 365
ordinal(t) == (t % 365) + 1

\* ---------------------------------------------------------------- results
Ok(v) == [kind |-> "Ok", value |-> v]
\* an Err(InventoryError) return; v names the error variant
Err(v) == [kind |-> "Err", value |-> v]
\* the call did not return: a panic unwound out of it; v names the panic
Panic(v) == [kind |-> "Panic", value |-> v]

\* ------------------------------------------------- models.rs: Product
\* needs_reorder with the comparison off by one: `<` for `<=`
needs_reorder_strict(product, current_stock) == current_stock < product.reorder_point

\* Product::needs_reorder
needs_reorder(product, current_stock) == current_stock <= product.reorder_point

\* calculate_eoq with the 25% holding-cost rate left out: holding_cost =
\* unit_cost, so eoq_squared = 2 * D * S / unit_cost
calculate_eoq_full_holding_cost(product, annual_demand, ordering_cost) ==
    IF annual_demand = 0 THEN Ok(0)
    ELSE IF product.unit_cost = 0 THEN Panic("Division by zero")
    ELSE IF 2 * annual_demand * ordering_cost < 0 THEN Err("Calculation")
    ELSE Ok(Max(RoundSqrt(2 * annual_demand * ordering_cost, product.unit_cost), 1))

\* Product::calculate_eoq.  holding_cost = unit_cost * 0.25 (0.25 is exact in
\* f64, so from_f64_retain keeps 0.25), eoq_squared = 2 * D * S / holding_cost
\* = 8 * D * S / unit_cost.  Decimal's `/` panics on a zero divisor.  A
\* negative eoq_squared has a NaN square root, which from_f64_retain refuses.
calculate_eoq(product, annual_demand, ordering_cost) ==
    IF annual_demand = 0 THEN Ok(0)
    ELSE IF product.unit_cost = 0 THEN Panic("Division by zero")
    ELSE IF 8 * annual_demand * ordering_cost < 0 THEN Err("Calculation")
    ELSE Ok(Max(RoundSqrt(8 * annual_demand * ordering_cost, product.unit_cost), 1))

\* Product::validate, on the fields of a Product literal
validate(product) ==
    IF product.sku_blank THEN Err("Validation")
    ELSE IF product.name_blank THEN Err("Validation")
    ELSE IF product.unit_cost < 0 THEN Err("Validation")
    ELSE IF product.retail_price < 0 THEN Err("Validation")
    ELSE IF product.minimum_stock > product.maximum_stock THEN Err("Validation")
    ELSE IF product.reorder_point < product.minimum_stock THEN Err("Validation")
    ELSE Ok(<<>>)

\* ---------------------------------------------- algorithms.rs: urgency
\* calculate_urgency with the reorder-point test off by one: `<` for `<=`
calculate_urgency_strict(current_stock, reorder_point, minimum_stock) ==
    IF current_stock = 0 THEN Rat(1, 1)
    ELSE IF current_stock <= minimum_stock THEN Rat(9, 10)
    ELSE IF current_stock < reorder_point
    THEN LET num == reorder_point - current_stock
             den == Max(reorder_point - minimum_stock, 1)
         IN Rat(5 * den + 4 * num, 10 * den)
    ELSE Rat(1, 10)

\* calculate_urgency with the ratio taken from the wrong end of the band:
\* current_stock - minimum_stock for reorder_point - current_stock
calculate_urgency_inverted_ratio(current_stock, reorder_point, minimum_stock) ==
    IF current_stock = 0 THEN Rat(1, 1)
    ELSE IF current_stock <= minimum_stock THEN Rat(9, 10)
    ELSE IF current_stock <= reorder_point
    THEN LET num == current_stock - minimum_stock
             den == Max(reorder_point - minimum_stock, 1)
         IN Rat(5 * den + 4 * num, 10 * den)
    ELSE Rat(1, 10)

\* calculate_urgency: 1.0, 0.9, 0.5 + 0.4 * ratio, 0.1 as rationals
calculate_urgency(current_stock, reorder_point, minimum_stock) ==
    IF current_stock = 0 THEN Rat(1, 1)
    ELSE IF current_stock <= minimum_stock THEN Rat(9, 10)
    ELSE IF current_stock <= reorder_point
    THEN LET num == reorder_point - current_stock
             den == Max(reorder_point - minimum_stock, 1)
         IN Rat(5 * den + 4 * num, 10 * den)
    ELSE Rat(1, 10)

\* ------------------------------------------------- rationals, continued
RatAdd(x, y) == Rat(x[1] * y[2] + y[1] * x[2], x[2] * y[2])
RatMul(x, y) == Rat(x[1] * y[1], x[2] * y[2])
\* `x as u32` of a float x: truncation, negative values saturate to 0
RatAsU32(x) == IF x[1] <= 0 THEN 0 ELSE x[1] \div x[2]

\* --------------------------------- algorithms.rs: helpers of the system
HasSnapshot(key) == inventory[key] # NoSnapshot
HasProduct(p) == products[p] # NoProduct

\* get_total_inventory_for_product: quantity_on_hand summed over the
\* product's snapshots (an empty sum is 0)
get_total_inventory_for_product(product_id) ==
    LET keys == {k \in DOMAIN inventory : HasSnapshot(k) /\ k[1] = product_id}
    IN SetSum([k \in keys |-> inventory[k].quantity_on_hand], keys)

\* get_product_transactions: the product's transactions, every type
get_product_transactions(product_id) ==
    SelectSeq(transactions, LAMBDA t : t.product_id = product_id)

\* the (year, week) bucket of a timestamp: week = (ordinal - 1) / 7 + 1
year_week(t) == <<year(t), ((ordinal(t) - 1) \div 7) + 1>>

RECURSIVE SortedValues(_, _)
\* the values f[k], k in S, as an ascending sequence (Vec::sort)
SortedValues(f, S) ==
    IF S = {} THEN <<>>
    ELSE LET k == CHOOSE x \in S : \A y \in S : f[x] <= f[y]
         IN <<f[k]>> \o SortedValues(f, S \ {k})

\* calculate_weekly_demands without the matches!(.., Shipment) test: every
\* transaction counts
calculate_weekly_demands_all_types(txs) ==
    LET weeks == {year_week(txs[i].timestamp) : i \in DOMAIN txs}
        total == [w \in weeks |->
                    SeqSum([i \in DOMAIN txs |->
                              IF year_week(txs[i].timestamp) = w
                              THEN Abs(txs[i].quantity) ELSE 0])]
    IN SortedValues(total, weeks)

\* calculate_weekly_demands: |quantity| of the Shipments summed per
\* (year, week) bucket; the buckets' totals are then sorted by value
calculate_weekly_demands(txs) ==
    LET shipments == SelectSeq(txs, LAMBDA t : t.transaction_type = "Shipment")
        weeks == {year_week(shipments[i].timestamp) : i \in DOMAIN shipments}
        total == [w \in weeks |->
                    SeqSum([i \in DOMAIN shipments |->
                              IF year_week(shipments[i].timestamp) = w
                              THEN Abs(shipments[i].quantity) ELSE 0])]
    IN SortedValues(total, weeks)

\* calculate_trend with the factor n left out of the numerator
calculate_trend_unscaled(weekly_demands) ==
    LET n == Len(weekly_demands)
        x_sum == SeqSum([i \in 1 .. n |-> i - 1])
        y_sum == SeqSum(weekly_demands)
        xy_sum == SeqSum([i \in 1 .. n |-> (i - 1) * weekly_demands[i]])
        x_sq_sum == SeqSum([i \in 1 .. n |-> (i - 1) * (i - 1)])
        numerator == xy_sum - x_sum * y_sum
        denominator == n * x_sq_sum - x_sum * x_sum
    IN IF n < 2 THEN Rat(0, 1)
       ELSE IF denominator = 0 THEN Rat(0, 1)
       ELSE Rat(numerator, denominator)

\* calculate_trend: least-squares slope against the index 0 .. n-1
calculate_trend(weekly_demands) ==
    LET n == Len(weekly_demands)
        x_sum == SeqSum([i \in 1 .. n |-> i - 1])
        y_sum == SeqSum(weekly_demands)
        xy_sum == SeqSum([i \in 1 .. n |-> (i - 1) * weekly_demands[i]])
        x_sq_sum == SeqSum([i \in 1 .. n |-> (i - 1) * (i - 1)])
        numerator == n * xy_sum - x_sum * y_sum
        denominator == n * x_sq_sum - x_sum * x_sum
    IN IF n < 2 THEN Rat(0, 1)
       ELSE IF denominator = 0 THEN Rat(0, 1)
       ELSE Rat(numerator, denominator)

\* calculate_forecast_confidence without its clamps: 1 - cv as it comes
calculate_forecast_confidence_unclamped(weekly_demands) ==
    LET n == Len(weekly_demands)
        sum == SeqSum(weekly_demands)
        sq == SeqSum([i \in 1 .. n |-> weekly_demands[i] * weekly_demands[i]])
        cv_milli == IF sum > 0
                    THEN FloorSqrt(1000000 * (n * sq - sum * sum), sum * sum)
                    ELSE 1000
    IN IF n < 3 THEN Rat(1, 2)
       ELSE Rat(1000 - cv_milli, 1000)

\* calculate_forecast_confidence with the fixed 0.5 kept for fewer than 2
\* points only
calculate_forecast_confidence_two_points(weekly_demands) ==
    LET n == Len(weekly_demands)
        sum == SeqSum(weekly_demands)
        sq == SeqSum([i \in 1 .. n |-> weekly_demands[i] * weekly_demands[i]])
        cv_milli == IF sum > 0 /\ n * sq - sum * sum < sum * sum
                    THEN FloorSqrt(1000000 * (n * sq - sum * sum), sum * sum)
                    ELSE 1000
    IN IF n < 2 THEN Rat(1, 2)
       ELSE Rat(Max(1000 - Min(cv_milli, 1000), 100), 1000)

\* calculate_forecast_confidence.  The coefficient of variation
\* sqrt(variance) / mean is kept to three decimals (truncated):
\* floor(1000 * cv) = floor(sqrt(10^6 * (n * sum d^2 - (sum d)^2) / (sum d)^2))
\* and a cv of 1 or more (variance >= mean^2), like the cv of a zero mean,
\* counts as 1: it is clamped by min(1.0)
calculate_forecast_confidence(weekly_demands) ==
    LET n == Len(weekly_demands)
        sum == SeqSum(weekly_demands)
        sq == SeqSum([i \in 1 .. n |-> weekly_demands[i] * weekly_demands[i]])
        cv_milli == IF sum > 0 /\ n * sq - sum * sum < sum * sum
                    THEN FloorSqrt(1000000 * (n * sq - sum * sum), sum * sum)
                    ELSE 1000
    IN IF n < 3 THEN Rat(1, 2)
       ELSE Rat(Max(1000 - Min(cv_milli, 1000), 100), 1000)

RECURSIVE Smooth(_, _)
\* forecast = alpha * demand + (1 - alpha) * forecast over the demands,
\* alpha = 0.3
Smooth(forecast, demands) ==
    IF demands = <<>> THEN forecast
    ELSE Smooth(RatAdd(RatMul(Rat(3, 10), Rat(Head(demands), 1)),
                       RatMul(Rat(7, 10), forecast)),
                Tail(demands))

\* forecast_demand: the DemandForecast of a product over `days` days
forecast_demand(product_id, days) ==
    LET txs == get_product_transactions(product_id)
        weekly_demands == calculate_weekly_demands(txs)
        avg_weekly == IF weekly_demands = <<>> THEN 0 ELSE weekly_demands[1]
        trend_factor == calculate_trend(weekly_demands)
        forecast == Smooth(Rat(weekly_demands[1], 1), Tail(weekly_demands))
        weeks_ahead == Rat(days, 7)
        trend_adjusted_forecast == RatAdd(forecast, RatMul(trend_factor, weeks_ahead))
    IN IF txs = <<>>
       THEN [product_id |-> product_id, forecast_period_days |-> days,
             predicted_demand |-> 0, annual_demand |-> 0,
             confidence_level |-> Rat(0, 1), trend_factor |-> Rat(0, 1)]
       ELSE IF Len(weekly_demands) < 2
       THEN [product_id |-> product_id, forecast_period_days |-> days,
             predicted_demand |-> (avg_weekly * days) \div 7,
             annual_demand |-> avg_weekly * 52,
             confidence_level |-> Rat(1, 2), trend_factor |-> Rat(0, 1)]
       ELSE [product_id |-> product_id, forecast_period_days |-> days,
             predicted_demand |->
                 RatAsU32(RatMul(trend_adjusted_forecast, weeks_ahead)),
             annual_demand |-> RatAsU32(RatMul(forecast, Rat(52, 1))),
             confidence_level |-> calculate_forecast_confidence(weekly_demands),
             trend_factor |-> trend_factor]

\* calculate_safety_stock.  Fewer than 3 weeks: (avg * 0.25) as u32, where
\* avg of no week at all is 0.0 / 0.0 = NaN and NaN as u32 is 0.  Otherwise
\* z * std_dev * sqrt(lead_time_days / 7) with z = 1.645 = 329 / 200 and
\* the sample variance (n * sum d^2 - (sum d)^2) / (n * (n - 1)).
calculate_safety_stock(product_id) ==
    LET weekly_demands == calculate_weekly_demands(get_product_transactions(product_id))
        n == Len(weekly_demands)
        sum == SeqSum(weekly_demands)
        sq == SeqSum([i \in 1 .. n |-> weekly_demands[i] * weekly_demands[i]])
        lead_time_days == IF HasProduct(product_id)
                          THEN products[product_id].lead_time_days
                          ELSE 14
    IN IF n = 0 THEN 0
       ELSE IF n < 3 THEN sum \div (4 * n)
       ELSE FloorSqrt(329 * 329 * (n * sq - sum * sum) * lead_time_days,
                      200 * 200 * n * (n - 1) * 7)

\* calculate_annual_demand: shipped quantity scaled to 365 days over the
\* span (in whole days, at least 1) of all the product's transactions
calculate_annual_demand(product_id) ==
    LET txs == get_product_transactions(product_id)
        total_shipped == SeqSum([i \in DOMAIN txs |->
                                   IF txs[i].transaction_type = "Shipment"
                                   THEN Abs(txs[i].quantity) ELSE 0])
        dates == {txs[i].timestamp : i \in DOMAIN txs}
        first_date == CHOOSE d \in dates : \A e \in dates : d <= e
        last_date == CHOOSE d \in dates : \A e \in dates : d >= e
        days_of_data == Max(last_date - first_date, 1)
    IN IF txs = <<>> THEN 0
       ELSE (total_shipped * 365) \div days_of_data

\* ------------------------------ algorithms.rs: reorder recommendations
\* the ordering cost assumed by calculate_reorder_recommendations
OrderingCost == 50
\* the horizon it forecasts over, in days
ForecastDays == 90

ReorderRecommendation(product_id, order_quantity) ==
    LET total_inventory == get_total_inventory_for_product(product_id)
        product == products[product_id]
    IN [product_id |-> product_id,
        current_stock |-> total_inventory,
        reorder_point |-> product.reorder_point,
        recommended_quantity |-> order_quantity,
        safety_stock |-> calculate_safety_stock(product_id),
        demand_forecast |-> forecast_demand(product_id, ForecastDays),
        urgency |-> calculate_urgency(total_inventory, product.reorder_point,
                                      product.minimum_stock)]

RECURSIVE collect_recommendations(_)
\* the loop over &self.products in the order `order`; `?` returns the first
\* failure, and a panic unwinds out of the loop
collect_recommendations(order) ==
    IF order = <<>> THEN Ok(<<>>)
    ELSE LET product_id == Head(order)
             product == products[product_id]
             total_inventory == get_total_inventory_for_product(product_id)
             order_quantity ==
                 calculate_eoq(product,
                               forecast_demand(product_id, ForecastDays).annual_demand,
                               OrderingCost)
             rest == collect_recommendations(Tail(order))
         IN IF ~needs_reorder(product, total_inventory) THEN rest
            ELSE IF order_quantity.kind # "Ok" THEN order_quantity
            ELSE IF rest.kind # "Ok" THEN rest
            ELSE Ok(<<ReorderRecommendation(product_id, order_quantity.value)>>
                    \o rest.value)

RECURSIVE insert_by_urgency(_, _)
\* r placed behind every entry whose urgency is >= its own
insert_by_urgency(sorted, r) ==
    IF sorted = <<>> THEN <<r>>
    ELSE IF RatLess(Head(sorted).urgency, r.urgency) THEN <<r>> \o sorted
    ELSE <<Head(sorted)>> \o insert_by_urgency(Tail(sorted), r)

RECURSIVE sort_acc(_, _)
sort_acc(sorted, rest) ==
    IF rest = <<>> THEN sorted
    ELSE sort_acc(insert_by_urgency(sorted, Head(rest)), Tail(rest))

RECURSIVE insert_ascending(_, _)
insert_ascending(sorted, r) ==
    IF sorted = <<>> THEN <<r>>
    ELSE IF RatLess(r.urgency, Head(sorted).urgency) THEN <<r>> \o sorted
    ELSE <<Head(sorted)>> \o insert_ascending(Tail(sorted), r)

RECURSIVE sort_ascending_acc(_, _)
sort_ascending_acc(sorted, rest) ==
    IF rest = <<>> THEN sorted
    ELSE sort_ascending_acc(insert_ascending(sorted, Head(rest)), Tail(rest))

\* the sort with the comparator's operands swapped: a.urgency.partial_cmp(&b.urgency)
sort_by_urgency_ascending(recommendations) == sort_ascending_acc(<<>>, recommendations)

\* recommendations.sort_by(|a, b| b.urgency.partial_cmp(&a.urgency)): a
\* stable sort, most urgent first
sort_by_urgency(recommendations) == sort_acc(<<>>, recommendations)

\* calculate_reorder_recommendations with the products iterated in `order`
calculate_reorder_recommendations(order) ==
    LET collected == collect_recommendations(order)
    IN IF collected.kind # "Ok" THEN collected
       ELSE Ok(sort_by_urgency(collected.value))

\* --------------------------------------- algorithms.rs: ABC analysis
\* Decimal::from_f64_retain keeps the binary value of the f64 literal:
\* 0.8  becomes 0.8000000000000000444089209850 (4/5 and a little more),
\* 0.95 becomes 0.9499999999999999555910790150 (19/20 less a little).
\* The excess is below 10^-16, far less than the distance between two
\* shares cumulative / total of the values met here.
RetainedA == [num |-> 4, den |-> 5, excess |-> 1]
RetainedB == [num |-> 19, den |-> 20, excess |-> -1]

\* cumulative_value / total_value <= threshold, total_value > 0
share_leq(cumulative_value, total_value, threshold) ==
    IF threshold.excess < 0
    THEN cumulative_value * threshold.den < threshold.num * total_value
    ELSE cumulative_value * threshold.den <= threshold.num * total_value

ProductValue(product_id) ==
    LET annual_demand == calculate_annual_demand(product_id)
    IN [product_id |-> product_id,
        annual_demand |-> annual_demand,
        unit_value |-> products[product_id].unit_cost,
        annual_value |-> products[product_id].unit_cost * annual_demand]

RECURSIVE insert_by_value(_, _)
\* pv placed behind every entry whose annual_value is >= its own
insert_by_value(sorted, pv) ==
    IF sorted = <<>> THEN <<pv>>
    ELSE IF Head(sorted).annual_value < pv.annual_value THEN <<pv>> \o sorted
    ELSE <<Head(sorted)>> \o insert_by_value(Tail(sorted), pv)

RECURSIVE sort_values_acc(_, _)
sort_values_acc(sorted, rest) ==
    IF rest = <<>> THEN sorted
    ELSE sort_values_acc(insert_by_value(sorted, Head(rest)), Tail(rest))

\* product_values.sort_by(|a, b| b.annual_value.cmp(&a.annual_value)) over
\* the values collected in the order `order`
sorted_product_values(order) ==
    sort_values_acc(<<>>, [i \in DOMAIN order |-> ProductValue(order[i])])

\* the class given to entry i of the sorted values
classify(product_values, i) ==
    LET total_value == SeqSum([j \in DOMAIN product_values |->
                                 product_values[j].annual_value])
        cumulative_value == SeqSum([j \in 1 .. i |-> product_values[j].annual_value])
    IN IF share_leq(cumulative_value, total_value, RetainedA) THEN "A"
       ELSE IF share_leq(cumulative_value, total_value, RetainedB) THEN "B"
       ELSE "C"

\* the product ids given class c, in sorted order
class_products(product_values, c) ==
    LET ids == [i \in DOMAIN product_values |-> product_values[i].product_id]
        idx == SelectSeq([i \in DOMAIN product_values |-> i],
                         LAMBDA i : classify(product_values, i) = c)
    IN [k \in DOMAIN idx |-> ids[idx[k]]]

\* perform_abc_analysis, its return value.  With a total value of zero the
\* first cumulative_value / total_value divides by zero: Decimal's `/`
\* panics, before any class is assigned.
perform_abc_analysis(order) ==
    LET product_values == sorted_product_values(order)
        total_value == SeqSum([j \in DOMAIN product_values |->
                                 product_values[j].annual_value])
    IN IF product_values # <<>> /\ total_value = 0
       THEN Panic("Division by zero")
       ELSE Ok([a_products |-> class_products(product_values, "A"),
                b_products |-> class_products(product_values, "B"),
                c_products |-> class_products(product_values, "C"),
                total_products |-> Cardinality({p \in ProductIds : HasProduct(p)}),
                total_value |-> total_value])

\* the products map after perform_abc_analysis: product.classification set
classified_products(order) ==
    LET product_values == sorted_product_values(order)
        index(p) == CHOOSE i \in DOMAIN product_values :
                        product_values[i].product_id = p
    IN [p \in ProductIds |->
          IF HasProduct(p)
          THEN [products[p] EXCEPT !.classification =
                                     classify(product_values, index(p))]
          ELSE products[p]]

\* ============================================================== actions
Returned(op, ret) == [op |-> op, ret |-> ret]

\* every order a HashMap holding the keys S may iterate in
IterOrders(S) ==
    {o \in [1 .. Cardinality(S) -> S] : \A i, j \in DOMAIN o : o[i] = o[j] => i = j}

Present == {p \in ProductIds : HasProduct(p)}

\* Product literals handed to add_product
ProductLiterals(costs, levels) ==
    [sku_blank : {FALSE}, name_blank : {FALSE}, unit_cost : costs,
     retail_price : {0}, minimum_stock : levels, maximum_stock : {MaxLevel},
     reorder_point : levels, lead_time_days : LeadTimes, classification : {None}]

\* InventorySystem::new
Init ==
    /\ products = [p \in ProductIds |-> NoProduct]
    /\ iter_order = <<>>
    /\ inventory = [k \in ProductIds \X LocationIds |-> NoSnapshot]
    /\ transactions = <<>>
    /\ line_item = NoLineItem
    /\ result = Returned("new", Ok(<<>>))

\* add_product: validate, then insert under product.id.  A new key may
\* land anywhere in the map's iteration order (and a resize reorders the
\* others); replacing a value keeps the order.
add_product(id, product) ==
    IF validate(product).kind # "Ok"
    THEN /\ result' = Returned("add_product", validate(product))
         /\ UNCHANGED <<products, iter_order, inventory, transactions, line_item>>
    ELSE /\ products' = [products EXCEPT ![id] = product]
         /\ iter_order' \in IF HasProduct(id) THEN {iter_order}
                            ELSE IterOrders(Present \cup {id})
         /\ result' = Returned("add_product", Ok(<<>>))
         /\ UNCHANGED <<inventory, transactions, line_item>>

\* add_inventory: insert the snapshot under (product_id, location_id)
add_inventory(snapshot) ==
    /\ inventory' = [inventory EXCEPT
                       ![<<snapshot.product_id, snapshot.location_id>>] = snapshot]
    /\ result' = Returned("add_inventory", Ok(<<>>))
    /\ UNCHANGED <<products, iter_order, transactions, line_item>>

\* moved_snapshot with the Shipment arm taking the signed quantity for |quantity|
moved_snapshot_signed(snapshot, transaction) ==
    LET qty == Abs(transaction.quantity)
        ty == transaction.transaction_type
        after ==
          IF ty \in {"Receipt", "Return"}
          THEN [snapshot EXCEPT !.quantity_on_hand = @ + qty,
                                !.quantity_available = @ + qty]
          ELSE IF ty = "Shipment"
          THEN [snapshot EXCEPT !.quantity_on_hand = @ - transaction.quantity,
                                !.quantity_available =
                                    saturating_sub(@, transaction.quantity)]
          ELSE IF ty = "Adjustment" /\ transaction.quantity >= 0
          THEN [snapshot EXCEPT !.quantity_on_hand = @ + transaction.quantity,
                                !.quantity_available = @ + transaction.quantity]
          ELSE IF ty = "Adjustment"
          THEN [snapshot EXCEPT !.quantity_on_hand = saturating_sub(@, qty),
                                !.quantity_available = saturating_sub(@, qty)]
          ELSE snapshot
    IN [after EXCEPT !.last_movement = transaction.timestamp]

\* the snapshot after the match on transaction_type and last_movement = Some(..)
moved_snapshot(snapshot, transaction) ==
    LET qty == Abs(transaction.quantity)
        ty == transaction.transaction_type
        after ==
          IF ty \in {"Receipt", "Return"}
          THEN [snapshot EXCEPT !.quantity_on_hand = @ + qty,
                                !.quantity_available = @ + qty]
          ELSE IF ty = "Shipment"
          THEN [snapshot EXCEPT !.quantity_on_hand = @ - qty,
                                !.quantity_available = saturating_sub(@, qty)]
          ELSE IF ty = "Adjustment" /\ transaction.quantity >= 0
          THEN [snapshot EXCEPT !.quantity_on_hand = @ + transaction.quantity,
                                !.quantity_available = @ + transaction.quantity]
          ELSE IF ty = "Adjustment"
          THEN [snapshot EXCEPT !.quantity_on_hand = saturating_sub(@, qty),
                                !.quantity_available = saturating_sub(@, qty)]
          ELSE snapshot
    IN [after EXCEPT !.last_movement = transaction.timestamp]

\* record_transaction with the push ahead of the stock test: a rejected
\* shipment is logged all the same
record_transaction_logged_first(transaction) ==
    LET key == <<transaction.product_id, transaction.location_id>>
    IN IF /\ HasSnapshot(key)
          /\ transaction.transaction_type = "Shipment"
          /\ inventory[key].quantity_on_hand < Abs(transaction.quantity)
       THEN /\ result' = Returned("record_transaction", Err("Validation"))
            /\ transactions' = Append(transactions, transaction)
            /\ UNCHANGED <<products, iter_order, inventory, line_item>>
       ELSE /\ inventory' = IF HasSnapshot(key)
                            THEN [inventory EXCEPT
                                    ![key] = moved_snapshot(@, transaction)]
                            ELSE inventory
            /\ transactions' = Append(transactions, transaction)
            /\ result' = Returned("record_transaction", Ok(<<>>))
            /\ UNCHANGED <<products, iter_order, line_item>>

\* record_transaction
record_transaction(transaction) ==
    LET key == <<transaction.product_id, transaction.location_id>>
    IN IF /\ HasSnapshot(key)
          /\ transaction.transaction_type = "Shipment"
          /\ inventory[key].quantity_on_hand < Abs(transaction.quantity)
       THEN /\ result' = Returned("record_transaction", Err("Validation"))
            /\ UNCHANGED <<products, iter_order, inventory, transactions, line_item>>
       ELSE /\ inventory' = IF HasSnapshot(key)
                            THEN [inventory EXCEPT
                                    ![key] = moved_snapshot(@, transaction)]
                            ELSE inventory
            /\ transactions' = Append(transactions, transaction)
            /\ result' = Returned("record_transaction", Ok(<<>>))
            /\ UNCHANGED <<products, iter_order, line_item>>

\* the three analyses; the first and the last take &self
CalculateReorderRecommendations ==
    /\ result' = Returned("calculate_reorder_recommendations",
                          calculate_reorder_recommendations(iter_order))
    /\ UNCHANGED <<products, iter_order, inventory, transactions, line_item>>

PerformAbcAnalysis ==
    LET ret == perform_abc_analysis(iter_order)
    IN /\ result' = Returned("perform_abc_analysis", ret)
       /\ products' = IF ret.kind = "Ok" THEN classified_products(iter_order)
                      ELSE products
       /\ UNCHANGED <<iter_order, inventory, transactions, line_item>>

ForecastDemand(product_id, days) ==
    /\ result' = Returned("forecast_demand", Ok(forecast_demand(product_id, days)))
    /\ UNCHANGED <<products, iter_order, inventory, transactions, line_item>>

\* InventorySnapshot literals handed to add_inventory: nothing reserved
\* p1 is stocked at both locations, p2 at l1 only
SnapshotKeys == {<<"p1", "l1">>, <<"p1", "l2">>, <<"p2", "l1">>}
Snapshots ==
    {s \in [product_id : ProductIds, location_id : LocationIds,
            quantity_on_hand : 0 .. MaxQty, quantity_reserved : {0},
            last_movement : {NoMovement}] :
       <<s.product_id, s.location_id>> \in SnapshotKeys}

WithAvailable(snapshot) ==
    [product_id |-> snapshot.product_id, location_id |-> snapshot.location_id,
     quantity_on_hand |-> snapshot.quantity_on_hand,
     quantity_available |-> snapshot.quantity_on_hand - snapshot.quantity_reserved,
     quantity_reserved |-> snapshot.quantity_reserved,
     last_movement |-> snapshot.last_movement]

Transactions(types, quantities, days) ==
    [product_id : ProductIds, location_id : LocationIds,
     transaction_type : types, quantity : quantities, timestamp : days]

AddProduct(literals) ==
    \E id \in ProductIds, product \in literals : add_product(id, product)

AddInventory ==
    \E snapshot \in Snapshots : add_inventory(WithAvailable(snapshot))

RecordTransaction(txs) ==
    /\ Len(transactions) < MaxTx
    /\ \E transaction \in txs : record_transaction(transaction)

\* ------------------------------------------- the replenishment planner
PlanLiterals == ProductLiterals({0, 1}, Levels)
PlanTransactions == Transactions({"Shipment"}, {-1}, {0})

PlanAddProduct == AddProduct(PlanLiterals)
PlanRecordTransaction == RecordTransaction(PlanTransactions)

Next ==
    \/ PlanAddProduct
    \/ AddInventory
    \/ PlanRecordTransaction
    \/ CalculateReorderRecommendations

Spec == Init /\ [][Next]_vars

\* ================================================= replenishment planner
\* the last call was calculate_reorder_recommendations and it returned Ok
PlanReturned ==
    /\ result.op = "calculate_reorder_recommendations"
    /\ result.ret.kind = "Ok"

\* quantity_on_hand of product p over every location, location by location
StockOnHand(p) ==
    SetSum([l \in LocationIds |->
              IF HasSnapshot(<<p, l>>) THEN inventory[<<p, l>>].quantity_on_hand
              ELSE 0],
           LocationIds)

Recommended(p) == {i \in DOMAIN result.ret.value : result.ret.value[i].product_id = p}

\* C1: when calculate_reorder_recommendations succeeds, a product is in the
\* returned list if and only if its stock summed over its location snapshots
\* is <= its reorder_point: a product above its reorder point never appears,
\* a product at or below it appears exactly once, and nothing else appears.
C1_RecommendedIffAtOrBelowReorderPoint ==
    PlanReturned =>
        /\ \A i \in DOMAIN result.ret.value :
               result.ret.value[i].product_id \in Present
        /\ \A p \in Present :
               IF StockOnHand(p) <= products[p].reorder_point
               THEN Cardinality(Recommended(p)) = 1
               ELSE Recommended(p) = {}

\* C1 witness: a successful call that lists a product sitting exactly at its
\* reorder point with stock at two locations, and leaves out another product
\* whose stock is above its reorder point.
C1_Witness ==
    /\ PlanReturned
    /\ \E p, q \in Present :
           /\ p # q
           /\ \A l \in LocationIds : HasSnapshot(<<p, l>>)
           /\ StockOnHand(p) = products[p].reorder_point
           /\ StockOnHand(p) > 0
           /\ Recommended(p) # {}
           /\ StockOnHand(q) > products[q].reorder_point
           /\ Recommended(q) = {}

\* the per-item computation of product p (forecast, safety stock, EOQ) fails
ItemFails(p) ==
    calculate_eoq(products[p], forecast_demand(p, ForecastDays).annual_demand,
                  OrderingCost).kind # "Ok"

Qualifies(p) == StockOnHand(p) <= products[p].reorder_point

\* C2 (as claimed): a failing item does not abort the batch; the call still
\* returns the recommendations of every other qualifying product and leaves
\* the failing one out.
C2_FailSoftBatch ==
    (/\ result.op = "calculate_reorder_recommendations"
     /\ \E p, q \in Present :
            /\ Qualifies(p) /\ ItemFails(p)
            /\ Qualifies(q) /\ ~ItemFails(q))
    => /\ result.ret.kind = "Ok"
       /\ \A p \in Present :
              IF Qualifies(p) /\ ~ItemFails(p)
              THEN Cardinality(Recommended(p)) = 1
              ELSE Recommended(p) = {}

\* C4: the returned list is in descending order of urgency.
C4_SortedByUrgencyDescending ==
    PlanReturned =>
        \A i \in 1 .. Len(result.ret.value) - 1 :
            RatLeq(result.ret.value[i + 1].urgency, result.ret.value[i].urgency)

\* C4 witness: two recommendations of different urgency, returned most
\* urgent first although the map iterated the less urgent product first.
C4_Witness ==
    /\ PlanReturned
    /\ Len(result.ret.value) = 2
    /\ RatLess(result.ret.value[2].urgency, result.ret.value[1].urgency)
    /\ iter_order = <<result.ret.value[2].product_id, result.ret.value[1].product_id>>

\* C5 (as claimed): the returned value does not depend on the order in which
\* the product map is iterated, ties in urgency included.
C5_IterationOrderIndependent ==
    result.op = "calculate_reorder_recommendations" =>
        \A order \in IterOrders(Present) :
            calculate_reorder_recommendations(order) = result.ret

\* ====================================================== value classifier
AbcLiterals == ProductLiterals({0, 1, 9, 19}, {0})
AbcTransactions == Transactions({"Shipment", "Receipt"}, {-1}, Days)

AbcAddProduct == AddProduct(AbcLiterals)
AbcRecordTransaction == RecordTransaction(AbcTransactions)

NextAbc ==
    \/ AbcAddProduct
    \/ AbcRecordTransaction
    \/ PerformAbcAnalysis

SpecAbc == Init /\ [][NextAbc]_vars

AbcCalled == result.op = "perform_abc_analysis"

\* the ids of a list of product ids
Ids(list) == {list[i] : i \in DOMAIN list}

\* annual value of product p: unit cost x annualized shipped quantity
AnnualValue(p) == products[p].unit_cost * calculate_annual_demand(p)
TotalAnnualValue == SetSum([p \in Present |-> AnnualValue(p)], Present)

\* C6 (as claimed): perform_abc_analysis partitions any catalog: it returns
\* lists a_products, b_products, c_products in which every product id of
\* the catalog appears exactly once, and whose lengths sum to total_products.
C6_AbcPartitionsCatalog ==
    AbcCalled =>
        /\ result.ret.kind = "Ok"
        /\ LET r == result.ret.value
               all == r.a_products \o r.b_products \o r.c_products
           IN /\ \A p \in Present : Cardinality({i \in DOMAIN all : all[i] = p}) = 1
              /\ Ids(all) = Present
              /\ Len(all) = r.total_products
              /\ r.total_products = Cardinality(Present)

\* the class the claimed thresholds give to a cumulative share c / t
ClaimedClass(c, t) ==
    IF 5 * c <= 4 * t THEN "A" ELSE IF 20 * c <= 19 * t THEN "B" ELSE "C"

\* cumulative value of product p in a walk by descending annual value that
\* leaves p in class c: the value of p and of every product ahead of it
CumulativeUpTo(p, ahead) ==
    SetSum([q \in ahead \cup {p} |-> AnnualValue(q)], ahead \cup {p})

\* C7 (as claimed): in a catalog of positive total value every product
\* gets the class of its cumulative share, current item included, in a walk
\* by descending annual value: A while the share is <= 0.80, B while it is
\* <= 0.95, C thereafter.
C7_AbcThresholds ==
    (AbcCalled /\ TotalAnnualValue > 0) =>
        /\ result.ret.kind = "Ok"
        /\ LET r == result.ret.value
               all == r.a_products \o r.b_products \o r.c_products
               class(i) == IF i <= Len(r.a_products) THEN "A"
                           ELSE IF i <= Len(r.a_products) + Len(r.b_products)
                           THEN "B" ELSE "C"
           IN /\ \A i \in 1 .. Len(all) - 1 :
                     AnnualValue(all[i]) >= AnnualValue(all[i + 1])
              /\ \A i \in DOMAIN all :
                     class(i) = ClaimedClass(
                         CumulativeUpTo(all[i], {all[j] : j \in 1 .. i - 1}),
                         TotalAnnualValue)

\* C8 (as claimed): with a total annual value of zero perform_abc_analysis
\* completes and puts every product in class C.
C8_ZeroTotalValueAllC ==
    (AbcCalled /\ TotalAnnualValue = 0) =>
        /\ result.ret.kind = "Ok"
        /\ result.ret.value.a_products = <<>>
        /\ result.ret.value.b_products = <<>>
        /\ Ids(result.ret.value.c_products) = Present

\* C26: in a catalog of positive total annual value perform_abc_analysis
\* puts the product whose annual value is higher than that of every other
\* product in class A.
C26_TopProductIsClassA ==
    (AbcCalled /\ TotalAnnualValue > 0) =>
        /\ result.ret.kind = "Ok"
        /\ \A p \in Present :
               (\A q \in Present \ {p} : AnnualValue(q) < AnnualValue(p))
                   => p \in Ids(result.ret.value.a_products)

\* ========================================================= urgency score
\* a call of a pure function: its arguments and what it returned
Called(op, args, ret) == [op |-> op, args |-> args, ret |-> ret]

\* calculate_urgency on the stock of a product and the two thresholds of a
\* product that passed validate (reorder_point >= minimum_stock)
CalculateUrgency ==
    /\ \E current_stock, reorder_point, minimum_stock \in 0 .. MaxStock :
           /\ minimum_stock <= reorder_point
           /\ result' = Called("calculate_urgency",
                               [current_stock |-> current_stock,
                                reorder_point |-> reorder_point,
                                minimum_stock |-> minimum_stock],
                               calculate_urgency(current_stock, reorder_point,
                                                 minimum_stock))
    /\ UNCHANGED <<products, iter_order, inventory, transactions, line_item>>

NextUrgency == CalculateUrgency

SpecUrgency == Init /\ [][NextUrgency]_vars

UrgencyCalled == result.op = "calculate_urgency"

\* C3 (as claimed): 1.0 at stock 0, 0.9 at stock = minimum_stock, 0.5 at
\* stock = reorder_point, for every product.
C3_UrgencyBoundariesAsClaimed ==
    UrgencyCalled =>
        /\ result.args.current_stock = 0 => result.ret = <<1, 1>>
        /\ result.args.current_stock = result.args.minimum_stock
               => result.ret = <<9, 10>>
        /\ result.args.current_stock = result.args.reorder_point
               => result.ret = <<1, 2>>

\* C3 (amended): calculate_urgency returns exactly 1.0 when current stock is
\* 0, exactly 0.9 when current stock equals minimum_stock and is not 0, and
\* exactly 0.5 when current stock equals reorder_point and is above
\* minimum_stock.
C3_UrgencyBoundaries ==
    UrgencyCalled =>
        /\ result.args.current_stock = 0 => result.ret = <<1, 1>>
        /\ (/\ result.args.current_stock = result.args.minimum_stock
            /\ result.args.current_stock > 0)
               => result.ret = <<9, 10>>
        /\ (/\ result.args.current_stock = result.args.reorder_point
            /\ result.args.current_stock > result.args.minimum_stock)
               => result.ret = <<1, 2>>

\* C3 witness: a call with stock at the reorder point, above a non-zero
\* minimum, that returned 0.5.
C3_Witness ==
    /\ UrgencyCalled
    /\ result.args.current_stock = result.args.reorder_point
    /\ result.args.current_stock > result.args.minimum_stock
    /\ result.args.minimum_stock > 0
    /\ result.ret = <<1, 2>>

\* calculate_urgency on any three u32 values up to MaxStock
CalculateUrgencyAny ==
    /\ \E current_stock, reorder_point, minimum_stock \in 0 .. MaxStock :
           result' = Called("calculate_urgency",
                            [current_stock |-> current_stock,
                             reorder_point |-> reorder_point,
                             minimum_stock |-> minimum_stock],
                            calculate_urgency(current_stock, reorder_point,
                                              minimum_stock))
    /\ UNCHANGED <<products, iter_order, inventory, transactions, line_item>>

NextUrgencyAny == CalculateUrgencyAny

SpecUrgencyAny == Init /\ [][NextUrgencyAny]_vars

\* C29: for fixed reorder_point and minimum_stock calculate_urgency is
\* non-increasing in the stock: no stock at or above the one of the call
\* gets a higher urgency than the call returned.
C29_UrgencyNonIncreasingInStock ==
    UrgencyCalled =>
        \A s2 \in result.args.current_stock .. MaxStock :
            RatLeq(calculate_urgency(s2, result.args.reorder_point,
                                     result.args.minimum_stock),
                   result.ret)

\* C29 witness: a call inside the band above minimum_stock and below
\* reorder_point, whose urgency lies strictly between those of the stocks
\* one below and one above it.
C29_Witness ==
    /\ UrgencyCalled
    /\ result.args.minimum_stock + 1 < result.args.current_stock
    /\ result.args.current_stock < result.args.reorder_point
    /\ RatLess(result.ret,
               calculate_urgency(result.args.current_stock - 1,
                                 result.args.reorder_point,
                                 result.args.minimum_stock))
    /\ RatLess(calculate_urgency(result.args.current_stock + 1,
                                 result.args.reorder_point,
                                 result.args.minimum_stock),
               result.ret)

\* ================================================ economic order quantity
EoqUnitCosts == {0, 1, 3, 10, 64, 1600}
EoqDemands == {0, 1, 2, 9, 1000}
EoqOrderingCosts == {-50, 0, 1, 50}

CalculateEoq ==
    /\ \E unit_cost \in EoqUnitCosts, annual_demand \in EoqDemands,
          ordering_cost \in EoqOrderingCosts :
           result' = Called("calculate_eoq",
                            [unit_cost |-> unit_cost,
                             annual_demand |-> annual_demand,
                             ordering_cost |-> ordering_cost],
                            calculate_eoq([unit_cost |-> unit_cost],
                                          annual_demand, ordering_cost))
    /\ UNCHANGED <<products, iter_order, inventory, transactions, line_item>>

NextEoq == CalculateEoq

SpecEoq == Init /\ [][NextEoq]_vars

EoqCalled == result.op = "calculate_eoq"

\* v is an integer nearest to sqrt(n / d): |v - sqrt(n / d)| <= 1/2
NearestToSqrt(v, n, d) ==
    /\ v >= 0
    /\ 4 * n <= (2 * v + 1) * (2 * v + 1) * d
    /\ v > 0 => (2 * v - 1) * (2 * v - 1) * d <= 4 * n

\* C9: calculate_eoq returns 0 when annual_demand is 0, and otherwise (where
\* the formula is defined: unit cost > 0, ordering cost >= 0) max(1, round(sqrt(2 * annual_demand *
\* ordering_cost / holding_cost))) with holding_cost = unit_cost / 4, that is
\* sqrt(8 * D * S / unit_cost) to a nearest integer, at least 1; demand 1000
\* at ordering cost 50 and unit cost 10 gives 200.
C9_EoqClosedForm ==
    EoqCalled =>
        LET a == result.args
            n == 8 * a.annual_demand * a.ordering_cost
        IN /\ a.annual_demand = 0 => result.ret = Ok(0)
           /\ (a.annual_demand > 0 /\ a.unit_cost > 0 /\ a.ordering_cost >= 0)
                  => /\ result.ret.kind = "Ok"
                     /\ result.ret.value >= 1
                     /\ \/ NearestToSqrt(result.ret.value, n, a.unit_cost)
                        \/ /\ result.ret.value = 1
                           /\ NearestToSqrt(0, n, a.unit_cost)
           /\ (a.annual_demand = 1000 /\ a.unit_cost = 10 /\ a.ordering_cost = 50)
                  => result.ret = Ok(200)

\* C9 witness: the call of test_eoq_calculation, which returned 200.
C9_Witness ==
    /\ EoqCalled
    /\ result.args = [unit_cost |-> 10, annual_demand |-> 1000, ordering_cost |-> 50]
    /\ result.ret = Ok(200)

\* C10 (as claimed): with a unit cost of 0 (holding cost 0) and annual demand
\* > 0, calculate_eoq returns an error value instead of crashing.
C10_ZeroHoldingCostIsError ==
    (EoqCalled /\ result.args.unit_cost = 0 /\ result.args.annual_demand > 0)
        => result.ret.kind = "Err"

\* ============================================================ forecaster
\* shipments of 1, 2 or 10 units in three consecutive weeks and a receipt of
\* 2 units in the second week, all at location l1
FcTransactions ==
    {t \in Transactions({"Shipment", "Receipt"}, {-1, 2, -10}, {0, 7, 14}) :
       /\ t.location_id = "l1"
       /\ t.transaction_type = "Receipt" => (t.quantity = 2 /\ t.timestamp = 7)}
Horizons == {7, 90}

FcRecordTransaction ==
    /\ Len(transactions) < MaxHistory
    /\ \E transaction \in FcTransactions : record_transaction(transaction)

FcForecastDemand ==
    \E product_id \in ProductIds, days \in Horizons : ForecastDemand(product_id, days)

\* calculate_weekly_demands on the transactions of one product
CalculateWeeklyDemands ==
    /\ \E product_id \in ProductIds :
           result' = Called("calculate_weekly_demands",
                            [product_id |-> product_id],
                            Ok(calculate_weekly_demands(
                                   get_product_transactions(product_id))))
    /\ UNCHANGED <<products, iter_order, inventory, transactions, line_item>>

NextForecast ==
    \/ FcRecordTransaction
    \/ FcForecastDemand
    \/ CalculateWeeklyDemands

SpecForecast == Init /\ [][NextForecast]_vars

WeeklyCalled == result.op = "calculate_weekly_demands"

\* |quantity| of the Shipments of product p
Shipped(p) ==
    [i \in {j \in DOMAIN transactions :
              /\ transactions[j].product_id = p
              /\ transactions[j].transaction_type = "Shipment"}
       |-> Abs(transactions[i].quantity)]

\* the (year, week) of a day: week = (day-of-year - 1) div 7 + 1
WeekOf(t) == <<t \div 365, (t % 365) \div 7 + 1>>

\* the weeks in which product p shipped, and the total shipped in week w
ShipmentWeeks(p) == {WeekOf(transactions[i].timestamp) : i \in DOMAIN Shipped(p)}
WeekTotal(p, w) ==
    LET in_week == {i \in DOMAIN Shipped(p) : WeekOf(transactions[i].timestamp) = w}
    IN SetSum([i \in in_week |-> Shipped(p)[i]], in_week)

WeekBefore(v, w) == v[1] < w[1] \/ (v[1] = w[1] /\ v[2] < w[2])

RECURSIVE Chronological(_, _)
\* the totals of the weeks S of product p, earliest week first
Chronological(p, S) ==
    IF S = {} THEN <<>>
    ELSE LET w == CHOOSE x \in S : \A y \in S \ {x} : WeekBefore(x, y)
         IN <<WeekTotal(p, w)>> \o Chronological(p, S \ {w})

\* C11 (as claimed): the weekly demand series lists the per-week shipment
\* totals in ascending (year, week) order, whatever the quantities are.
C11_WeeklySeriesChronological ==
    WeeklyCalled =>
        result.ret.value =
            Chronological(result.args.product_id, ShipmentWeeks(result.args.product_id))

ForecastCalled == result.op = "forecast_demand"

\* C12: for a product with at least one week of shipments forecast_demand
\* returns predicted_demand >= 0 and 0 <= confidence_level <= 1, whatever
\* the horizon and the history.
C12_ForecastWithinRange ==
    (ForecastCalled /\ ShipmentWeeks(result.ret.value.product_id) # {}) =>
        /\ result.ret.kind = "Ok"
        /\ result.ret.value.predicted_demand >= 0
        /\ RatLeq(<<0, 1>>, result.ret.value.confidence_level)
        /\ RatLeq(result.ret.value.confidence_level, <<1, 1>>)

\* C12 witness: a forecast over three weeks of shipments so uneven that the
\* confidence sits on its lower clamp 0.1, with a positive predicted demand.
C12_Witness ==
    /\ ForecastCalled
    /\ Cardinality(ShipmentWeeks(result.ret.value.product_id)) = 3
    /\ result.ret.value.confidence_level = <<1, 10>>
    /\ result.ret.value.predicted_demand > 0

\* product p has at least one recorded transaction, of any type
HasHistory(p) == \E i \in DOMAIN transactions : transactions[i].product_id = p

\* C22 (as claimed): whenever the weekly series of the product has fewer
\* than 3 points (0, 1 or 2 weeks of shipments), forecast_demand reports a
\* confidence of exactly 0.5.
C22_FewPointsConfidenceHalfAsClaimed ==
    (ForecastCalled /\ Cardinality(ShipmentWeeks(result.ret.value.product_id)) < 3)
        => result.ret.value.confidence_level = <<1, 2>>

\* C22 (amended): with fewer than 3 weeks of shipments forecast_demand
\* reports a confidence of exactly 0.5 when the product has at least one
\* recorded transaction, and of 0.0 when it has none.
C22_FewPointsConfidenceHalf ==
    (ForecastCalled /\ Cardinality(ShipmentWeeks(result.ret.value.product_id)) < 3)
        => result.ret.value.confidence_level =
               IF HasHistory(result.ret.value.product_id) THEN <<1, 2>> ELSE <<0, 1>>

\* C22 witness: a forecast over exactly two weeks of shipments of unequal
\* size, with confidence 0.5.
C22_Witness ==
    /\ ForecastCalled
    /\ Cardinality(ShipmentWeeks(result.ret.value.product_id)) = 2
    /\ result.ret.value.trend_factor # <<0, 1>>
    /\ result.ret.value.confidence_level = <<1, 2>>

\* ------------------------------------------------------- idle weeks
\* shipments of product p1 that move nothing (quantity 0) or 2 units, in
\* three different weeks
QuietTransactions ==
    {t \in Transactions({"Shipment"}, {0, -2}, {0, 7, 14}) :
       t.product_id = "p1" /\ t.location_id = "l1"}

QuietRecordTransaction ==
    /\ Len(transactions) < MaxHistory
    /\ \E transaction \in QuietTransactions : record_transaction(transaction)

QuietForecastDemand == \E days \in Horizons : ForecastDemand("p1", days)

NextQuiet ==
    \/ QuietRecordTransaction
    \/ QuietForecastDemand

SpecQuiet == Init /\ [][NextQuiet]_vars

\* C23 (as claimed): for a weekly series of 3 or more points whose totals
\* are all 0 (mean <= 0) the coefficient of variation counts as 0, so the
\* confidence 1 - min(cv, 1), at least 0.1, is 1.0.
C23_ZeroMeanConfidenceOne ==
    LET p == result.ret.value.product_id
    IN (/\ ForecastCalled
        /\ Cardinality(ShipmentWeeks(p)) >= 3
        /\ \A w \in ShipmentWeeks(p) : WeekTotal(p, w) = 0)
           => result.ret.value.confidence_level = <<1, 1>>

\* ================================================================= trend
TrendSeries == UNION {[1 .. n -> 0 .. MaxDemand] : n \in 0 .. MaxWeeks}

CalculateTrend ==
    /\ \E weekly_demands \in TrendSeries :
           result' = Called("calculate_trend",
                            [weekly_demands |-> weekly_demands],
                            Ok(calculate_trend(weekly_demands)))
    /\ UNCHANGED <<products, iter_order, inventory, transactions, line_item>>

NextTrend == CalculateTrend

SpecTrend == Init /\ [][NextTrend]_vars

TrendCalled == result.op = "calculate_trend"

StrictlyIncreasing(s) == \A i \in 1 .. Len(s) - 1 : s[i] < s[i + 1]
StrictlyDecreasing(s) == \A i \in 1 .. Len(s) - 1 : s[i] > s[i + 1]
Constant(s) == \A i \in 1 .. Len(s) - 1 : s[i] = s[i + 1]

\* b = num / den solves the normal equation of the line fitted to the points
\* (i - 1, s[i]):  b * sum (x - mean x)^2 = sum (x - mean x) * (y - mean y),
\* both sides scaled by n^2
IsLeastSquaresSlope(b, s) ==
    LET n == Len(s)
        sx == SeqSum([i \in 1 .. n |-> i - 1])
        sy == SeqSum(s)
        sxx == SeqSum([i \in 1 .. n |-> (n * (i - 1) - sx) * (n * (i - 1) - sx)])
        sxy == SeqSum([i \in 1 .. n |-> (n * (i - 1) - sx) * (n * s[i] - sy)])
    IN b[1] * sxx = b[2] * sxy

\* C13: calculate_trend is the least-squares slope of demand against the
\* week index: 0.0 for fewer than 2 points, > 0 for a strictly increasing
\* series, < 0 for a strictly decreasing one, exactly 0 for a constant one.
C13_TrendIsLeastSquaresSlope ==
    TrendCalled =>
        LET s == result.args.weekly_demands
            b == result.ret.value
        IN /\ result.ret.kind = "Ok"
           /\ Len(s) < 2 => b = <<0, 1>>
           /\ Len(s) >= 2 =>
                 /\ IsLeastSquaresSlope(b, s)
                 /\ StrictlyIncreasing(s) => b[1] > 0
                 /\ StrictlyDecreasing(s) => b[1] < 0
                 /\ Constant(s) => b = <<0, 1>>

\* C13 witness: a strictly decreasing series of three points, which got a
\* negative slope.
C13_Witness ==
    /\ TrendCalled
    /\ Len(result.args.weekly_demands) = 3
    /\ StrictlyDecreasing(result.args.weekly_demands)
    /\ result.ret.value[1] < 0

\* ====================================== enterprise_models.rs: safety stock
\* f64::round of sqrt(n / d): nearest integer, a midpoint goes away from zero
RoundHalfUpSqrt(n, d) ==
    LET k == FloorSqrt(n, d)
    IN IF 4 * n < (2 * k + 1) * (2 * k + 1) * d THEN k ELSE k + 1

\* the match on service_level_target: the z-score in hundredths
z_score(service_level_target) ==
    IF RatLeq(<<999, 1000>>, service_level_target) THEN 309
    ELSE IF RatLeq(<<99, 100>>, service_level_target) THEN 233
    ELSE IF RatLeq(<<95, 100>>, service_level_target) THEN 165
    ELSE IF RatLeq(<<90, 100>>, service_level_target) THEN 128
    ELSE IF RatLeq(<<85, 100>>, service_level_target) THEN 104
    ELSE 84

\* calculate_dynamic_safety_stock with the lead-time term left unsquared:
\* lead_time_variance = lead_time_days * lead_time_variability
calculate_dynamic_safety_stock_unsquared(policy, demand_std_dev, lead_time_days) ==
    LET lead_time_variance ==
            RatMul(Rat(lead_time_days, 1), policy.lead_time_variability)
        per_unit == RatAdd(Rat(lead_time_days, 1), lead_time_variance)
        scale == Rat(z_score(policy.service_level_target) * demand_std_dev, 100)
    IN Ok(RoundHalfUpSqrt(scale[1] * scale[1] * per_unit[1],
                          scale[2] * scale[2] * per_unit[2]))

\* InventoryPolicy::calculate_dynamic_safety_stock.  total_variance =
\* L * sigma^2 + sigma^2 * (L * v)^2 = sigma^2 * (L + (L * v)^2), so
\* z * sqrt(total_variance) = (z * sigma) * sqrt(L + (L * v)^2), sigma >= 0;
\* the two factors are kept as fractions in lowest terms
calculate_dynamic_safety_stock(policy, demand_std_dev, lead_time_days) ==
    LET lead_time_variance ==
            RatMul(RatMul(Rat(lead_time_days, 1), policy.lead_time_variability),
                   RatMul(Rat(lead_time_days, 1), policy.lead_time_variability))
        per_unit == RatAdd(Rat(lead_time_days, 1), lead_time_variance)
        scale == Rat(z_score(policy.service_level_target) * demand_std_dev, 100)
    IN Ok(RoundHalfUpSqrt(scale[1] * scale[1] * per_unit[1],
                          scale[2] * scale[2] * per_unit[2]))

\* service_level_target is an f64: the values around each boundary of the
\* match, and two outside [0, 1]
ServiceLevels ==
    {<<-1, 10>>, <<0, 1>>, <<4, 5>>, <<17, 20>>, <<22, 25>>, <<9, 10>>,
     <<19, 20>>, <<97, 100>>, <<99, 100>>, <<999, 1000>>, <<1, 1>>, <<3, 2>>}
LeadTimeVariabilities == {<<0, 1>>, <<1, 5>>, <<1, 2>>}
StdDevs == {0, 1, 25}
PolicyLeadTimes == {0, 1, 14}

CalculateDynamicSafetyStock ==
    /\ \E service_level_target \in ServiceLevels,
          lead_time_variability \in LeadTimeVariabilities,
          demand_std_dev \in StdDevs, lead_time_days \in PolicyLeadTimes :
           result' = Called("calculate_dynamic_safety_stock",
                            [service_level_target |-> service_level_target,
                             lead_time_variability |-> lead_time_variability,
                             demand_std_dev |-> demand_std_dev,
                             lead_time_days |-> lead_time_days],
                            calculate_dynamic_safety_stock(
                                [service_level_target |-> service_level_target,
                                 lead_time_variability |-> lead_time_variability],
                                demand_std_dev, lead_time_days))
    /\ UNCHANGED <<products, iter_order, inventory, transactions, line_item>>

NextPolicy == CalculateDynamicSafetyStock

SpecPolicy == Init /\ [][NextPolicy]_vars

PolicyCalled == result.op = "calculate_dynamic_safety_stock"

\* the claimed table, in hundredths, by the band the service level falls in
ClaimedZ(x) ==
    CHOOSE z \in {309, 233, 165, 128, 104, 84} :
        /\ z = 309 <=> 1000 * x[1] >= 999 * x[2]
        /\ z = 233 <=> (100 * x[1] >= 99 * x[2] /\ 1000 * x[1] < 999 * x[2])
        /\ z = 165 <=> (100 * x[1] >= 95 * x[2] /\ 100 * x[1] < 99 * x[2])
        /\ z = 128 <=> (100 * x[1] >= 90 * x[2] /\ 100 * x[1] < 95 * x[2])
        /\ z = 104 <=> (100 * x[1] >= 85 * x[2] /\ 100 * x[1] < 90 * x[2])
        /\ z = 84 <=> 100 * x[1] < 85 * x[2]

\* C14: calculate_dynamic_safety_stock returns round(z * sqrt(L * sigma^2 +
\* sigma^2 * (L * v)^2)), never negative, with z from the service-level
\* table; service level 0.95, sigma 25, L 14, v 0.2 gives a value strictly
\* between 0 and 200.  With v = vn / vd the value squared is
\* z^2 * sigma^2 * (L * vd^2 + L^2 * vn^2) / (100^2 * vd^2); the result r is
\* within one half of its root.
C14_DynamicSafetyStock ==
    PolicyCalled =>
        LET a == result.args
            r == result.ret.value
            z == ClaimedZ(a.service_level_target)
            vn == a.lead_time_variability[1]
            vd == a.lead_time_variability[2]
            g == GCD(z * a.demand_std_dev, 100)
            zs == (z * a.demand_std_dev) \div g
            n == zs * zs * (a.lead_time_days * vd * vd
                             + a.lead_time_days * a.lead_time_days * vn * vn)
            d == (100 \div g) * (100 \div g) * vd * vd
        IN /\ result.ret.kind = "Ok"
           /\ r >= 0
           /\ 4 * n <= (2 * r + 1) * (2 * r + 1) * d
           /\ r > 0 => (2 * r - 1) * (2 * r - 1) * d <= 4 * n
           /\ (/\ a.service_level_target = <<19, 20>> /\ a.demand_std_dev = 25
               /\ a.lead_time_days = 14 /\ a.lead_time_variability = <<1, 5>>)
                  => (0 < r /\ r < 200)

\* C14 witness: the call of test_inventory_policy_safety_stock_calculation,
\* which returned 193.
C14_Witness ==
    /\ PolicyCalled
    /\ result.args = [service_level_target |-> <<19, 20>>,
                      lead_time_variability |-> <<1, 5>>,
                      demand_std_dev |-> 25, lead_time_days |-> 14]
    /\ result.ret = Ok(193)

\* a service level below 0 or above 1
OutOfRange(service_level_target) ==
    \/ RatLess(service_level_target, <<0, 1>>)
    \/ RatLess(<<1, 1>>, service_level_target)

\* C21: a service level outside [0, 1], negative or greater than 1, falls
\* into the lowest z-score bucket: the z-score taken is 0.84 and the value
\* returned is the one a service level of 0.80 gives for the same demand
\* deviation, lead time and lead-time variability.
C21_OutOfRangeTakesLowestBucket ==
    (PolicyCalled /\ OutOfRange(result.args.service_level_target)) =>
        /\ z_score(result.args.service_level_target) = 84
        /\ result.ret =
               calculate_dynamic_safety_stock(
                   [service_level_target |-> <<4, 5>>,
                    lead_time_variability |-> result.args.lead_time_variability],
                   result.args.demand_std_dev, result.args.lead_time_days)

\* ================================== enterprise_models.rs: ForecastModel
\* An f64 is a fraction in lowest terms or, with denominator 0, one of the
\* specials +inf <<1, 0>>, -inf <<-1, 0>> and NaN <<0, 0>>.  A zero is +0.0.
NaN == <<0, 0>>
Sgn(n) == IF n > 0 THEN 1 ELSE IF n < 0 THEN -1 ELSE 0
IsFinite(x) == x[2] # 0
FAdd(x, y) ==
    IF IsFinite(x) /\ IsFinite(y) THEN RatAdd(x, y)
    ELSE IF x = NaN \/ y = NaN THEN NaN
    ELSE IF IsFinite(x) THEN y
    ELSE IF IsFinite(y) THEN x
    ELSE IF x = y THEN x ELSE NaN
FSub(x, y) == FAdd(x, <<-y[1], y[2]>>)
FMul(x, y) ==
    IF IsFinite(x) /\ IsFinite(y) THEN RatMul(x, y)
    ELSE IF x = NaN \/ y = NaN \/ x[1] = 0 \/ y[1] = 0 THEN NaN
    ELSE <<Sgn(x[1]) * Sgn(y[1]), 0>>
FDiv(x, y) ==
    IF x = NaN \/ y = NaN THEN NaN
    ELSE IF ~IsFinite(x)
    THEN (IF ~IsFinite(y) THEN NaN ELSE <<x[1] * (IF y[1] < 0 THEN -1 ELSE 1), 0>>)
    ELSE IF ~IsFinite(y) THEN <<0, 1>>
    ELSE IF y[1] = 0 THEN (IF x[1] = 0 THEN NaN ELSE <<Sgn(x[1]), 0>>)
    ELSE Rat(x[1] * y[2] * Sgn(y[1]), x[2] * Abs(y[1]))
\* f64::max(x, 0.0): 0.0 when x is NaN
max_zero(x) == IF x = NaN \/ x[1] < 0 THEN <<0, 1>> ELSE x

RECURSIVE FSum(_)
FSum(s) == IF s = <<>> THEN <<0, 1>> ELSE FAdd(Head(s), FSum(Tail(s)))

\* level and trend after the observations data[i .. ]; beta is <<>> for None
\* and <<b>> for Some(b)
RECURSIVE smooth_level_trend(_, _, _, _, _, _)
smooth_level_trend(i, level, trend, data, alpha, beta) ==
    IF i > Len(data) THEN [level |-> level, trend |-> trend]
    ELSE LET new_level == FAdd(FMul(alpha, data[i]),
                               FMul(FSub(<<1, 1>>, alpha), FAdd(level, trend)))
             new_trend == IF beta # <<>>
                          THEN FAdd(FMul(beta[1], FSub(new_level, level)),
                                    FMul(FSub(<<1, 1>>, beta[1]), trend))
                          ELSE trend
         IN smooth_level_trend(i + 1, new_level, new_trend, data, alpha, beta)

\* ForecastModel::exponential_smoothing_forecast (gamma is not used)
exponential_smoothing_forecast(data, periods, alpha, beta) ==
    IF data = <<>> THEN Err("Calculation")
    ELSE LET trend == IF Len(data) > 1 THEN FSub(data[2], data[1]) ELSE <<0, 1>>
             fit == smooth_level_trend(2, data[1], trend, data, alpha, beta)
         IN Ok([h \in 1 .. periods |->
                  max_zero(IF beta # <<>>
                           THEN FAdd(fit.level, FMul(Rat(h, 1), fit.trend))
                           ELSE fit.level)])

\* the update loop of holt_winters_forecast from index t (0-based) on, over
\* hw = [level, trend, seasonal]
RECURSIVE holt_winters_update(_, _, _, _)
holt_winters_update(t, hw, data, model) ==
    IF t >= Len(data) THEN hw
    ELSE LET s == t % model.seasonal_periods
             x == data[t + 1]
             carried == FMul(FSub(<<1, 1>>, model.alpha), FAdd(hw.level, hw.trend))
             new_level ==
                 IF model.multiplicative
                 THEN FAdd(FMul(model.alpha, FDiv(x, hw.seasonal[s + 1])), carried)
                 ELSE FAdd(FMul(model.alpha, FSub(x, hw.seasonal[s + 1])), carried)
             new_trend == FAdd(FMul(model.beta, FSub(new_level, hw.level)),
                               FMul(FSub(<<1, 1>>, model.beta), hw.trend))
             kept == FMul(FSub(<<1, 1>>, model.gamma), hw.seasonal[s + 1])
             new_seasonal ==
                 IF model.multiplicative
                 THEN FAdd(FMul(model.gamma, FDiv(x, new_level)), kept)
                 ELSE FAdd(FMul(model.gamma, FSub(x, new_level)), kept)
         IN holt_winters_update(
                t + 1,
                [level |-> new_level, trend |-> new_trend,
                 seasonal |-> [hw.seasonal EXCEPT ![s + 1] = new_seasonal]],
                data, model)

\* ForecastModel::holt_winters_forecast.  With seasonal_periods = 0 the
\* length test passes; data[0] is out of bounds for an empty series, and
\* otherwise the first `t % seasonal_periods` divides by zero.
holt_winters_forecast(data, periods, model) ==
    LET m == model.seasonal_periods
    IN IF Len(data) < 2 * m THEN Err("Calculation")
       ELSE IF m = 0 /\ data = <<>> THEN Panic("index out of bounds")
       ELSE IF m = 0 THEN Panic("remainder by zero")
       ELSE LET level == data[1]
                trend == FDiv(FSub(data[m + 1], data[1]), Rat(m, 1))
                seasonal == [i \in 1 .. m |->
                               IF model.multiplicative THEN FDiv(data[i], level)
                               ELSE FSub(data[i], level)]
                hw == holt_winters_update(
                          m, [level |-> level, trend |-> trend,
                              seasonal |-> seasonal], data, model)
            IN Ok([h \in 1 .. periods |->
                     LET s == (Len(data) + h - 1) % m
                         ahead == FAdd(hw.level, FMul(Rat(h, 1), hw.trend))
                     IN max_zero(IF model.multiplicative
                                 THEN FMul(ahead, hw.seasonal[s + 1])
                                 ELSE FAdd(ahead, hw.seasonal[s + 1]))])

\* the walk of arima_forecast: current * 0.95 + last_value * 0.05, k times
RECURSIVE arima_walk(_, _, _)
arima_walk(k, current_forecast, last_value) ==
    IF k = 0 THEN current_forecast
    ELSE arima_walk(k - 1,
                    FAdd(FMul(current_forecast, <<19, 20>>),
                         FMul(last_value, <<1, 20>>)),
                    last_value)

\* ForecastModel::arima_forecast
arima_forecast(data, periods) ==
    IF Len(data) < 10 THEN Err("Calculation")
    ELSE LET last_value == data[Len(data)]
         IN Ok([k \in 1 .. periods |->
                  max_zero(arima_walk(k, last_value, last_value))])

RECURSIVE forecast(_, _, _)
RECURSIVE ensemble_forecasts(_, _, _, _, _)

\* the loop of the EnsembleModel arm over the (model, weight) pairs left;
\* `?` returns the first member's error, and a member's panic unwinds
ensemble_forecasts(models, acc, total_weight, historical_data, periods) ==
    IF models = <<>> THEN Ok(acc)
    ELSE LET member == Head(models)
             model_forecasts == forecast(member.model, historical_data, periods)
         IN IF model_forecasts.kind # "Ok" THEN model_forecasts
            ELSE ensemble_forecasts(
                     Tail(models),
                     [i \in 1 .. periods |->
                        FAdd(acc[i],
                             FDiv(FMul(model_forecasts.value[i], member.weight),
                                  total_weight))],
                     total_weight, historical_data, periods)

\* ForecastModel::forecast
forecast(model, historical_data, periods) ==
    LET len == Len(historical_data)
    IN CASE model.kind = "SimpleMovingAverage" ->
              IF len < model.periods THEN Err("Calculation")
              ELSE LET recent_data ==
                           SubSeq(historical_data, len - model.periods + 1, len)
                       average == FDiv(FSum(recent_data), Rat(model.periods, 1))
                   IN Ok([i \in 1 .. periods |-> average])
         [] model.kind = "ExponentialSmoothing" ->
              exponential_smoothing_forecast(historical_data, periods,
                                             model.alpha, model.beta)
         [] model.kind = "HoltWinters" ->
              holt_winters_forecast(historical_data, periods, model)
         [] model.kind = "LinearRegression" ->
              IF periods > 0 /\ model.coefficients = <<>>
              THEN Panic("index out of bounds")
              ELSE Ok([i \in 1 .. periods |->
                         max_zero(FAdd(model.intercept,
                                       FMul(model.coefficients[1],
                                            Rat(len + i, 1))))])
         [] model.kind = "ARIMA" -> arima_forecast(historical_data, periods)
         [] model.kind = "EnsembleModel" ->
              ensemble_forecasts(
                  model.models, [i \in 1 .. periods |-> <<0, 1>>],
                  FSum([i \in DOMAIN model.models |-> model.models[i].weight]),
                  historical_data, periods)

\* ForecastModel values: windows of 1 and 2, smoothing factors of 0.5 with and
\* without a trend factor, seasons of 0, 1 and 2 periods, a regression with
\* no, a falling and a rising coefficient, and ensembles of up to two
\* weighted members
MemberModels ==
    {[kind |-> "SimpleMovingAverage", periods |-> 1],
     [kind |-> "SimpleMovingAverage", periods |-> 2],
     [kind |-> "ExponentialSmoothing", alpha |-> <<1, 2>>, beta |-> <<>>]}
ForecastModels ==
    MemberModels
    \cup {[kind |-> "ExponentialSmoothing", alpha |-> <<1, 2>>,
           beta |-> <<(<<1, 2>>)>>]}
    \cup [kind : {"HoltWinters"}, alpha : {<<1, 2>>}, beta : {<<1, 2>>},
          gamma : {<<1, 2>>}, seasonal_periods : 0 .. 2, multiplicative : BOOLEAN]
    \cup [kind : {"LinearRegression"}, coefficients : {<<>>, <<(<<-1, 1>>)>>,
          <<(<<1, 1>>)>>}, intercept : {<<1, 1>>}]
    \cup {[kind |-> "ARIMA"]}
    \cup {[kind |-> "EnsembleModel", models |-> models] :
            models \in UNION {[1 .. n -> [model : MemberModels,
                                         weight : {<<-1, 1>>, <<2, 1>>}]] :
                                n \in 0 .. 2}}

\* historical demand: up to MaxHistory observations of 0, 1 or 3 units, and
\* for the ARIMA variant, which alone asks for 10 points, two series of 10
ShortSeries ==
    UNION {[1 .. n -> {<<0, 1>>, <<1, 1>>, <<3, 1>>}] : n \in 0 .. MaxHistory}
LongSeries == {[i \in 1 .. 10 |-> <<3, 1>>], [i \in 1 .. 10 |-> <<10 - i, 1>>]}
SeriesFor(model) ==
    IF model.kind = "ARIMA" THEN ShortSeries \cup LongSeries ELSE ShortSeries

\* the arguments of a call of forecast
ForecastCalls ==
    UNION {[model : {model}, historical_data : SeriesFor(model),
            periods : 0 .. MaxPeriods] : model \in ForecastModels}

\* a call that is about to be made
Pending(op, args) == [op |-> op, args |-> args, ret |-> [kind |-> "Pending"]]

InitForecastModel ==
    /\ products = [p \in ProductIds |-> NoProduct]
    /\ iter_order = <<>>
    /\ inventory = [k \in ProductIds \X LocationIds |-> NoSnapshot]
    /\ transactions = <<>>
    /\ line_item = NoLineItem
    /\ \E args \in ForecastCalls : result = Pending("forecast", args)

Forecast ==
    /\ result.op = "forecast"
    /\ result.ret.kind = "Pending"
    /\ result' = Called("forecast", result.args,
                        forecast(result.args.model, result.args.historical_data,
                                 result.args.periods))
    /\ UNCHANGED <<products, iter_order, inventory, transactions, line_item>>

NextForecastModel == Forecast

SpecForecastModel == InitForecastModel /\ [][NextForecastModel]_vars

ModelForecastCalled == result.op = "forecast" /\ result.ret.kind # "Pending"

\* C24: whenever ForecastModel::forecast succeeds, whatever the variant, the
\* series and the ensemble weights, every value of the returned vector is
\* >= 0 (and so is not NaN).
C24_ForecastValuesNonNegative ==
    (ModelForecastCalled /\ result.ret.kind = "Ok") =>
        \A i \in DOMAIN result.ret.value :
            result.ret.value[i] # NaN /\ result.ret.value[i][1] >= 0

RECURSIVE HistoryTooShort(_, _)
\* the series is shorter than the variant asks for: the window of a moving
\* average, two seasons of Holt-Winters, one point for exponential smoothing
\* and ten for ARIMA; for an ensemble, shorter than one of its members asks
HistoryTooShort(model, data) ==
    CASE model.kind = "SimpleMovingAverage" -> Len(data) < model.periods
      [] model.kind = "HoltWinters" -> Len(data) < 2 * model.seasonal_periods
      [] model.kind = "ExponentialSmoothing" -> Len(data) < 1
      [] model.kind = "ARIMA" -> Len(data) < 10
      [] model.kind = "EnsembleModel" ->
           \E i \in DOMAIN model.models : HistoryTooShort(model.models[i].model, data)
      [] OTHER -> FALSE

\* C25: for every model, series and horizon, ForecastModel::forecast either
\* returns exactly `periods` values or returns the error of a history
\* shorter than the method asks for; it fails in no other way and never
\* panics.
C25_ForecastReturnsPeriodsOrTooShort ==
    ModelForecastCalled =>
        \/ /\ result.ret.kind = "Ok"
           /\ Len(result.ret.value) = result.args.periods
        \/ /\ result.ret = Err("Calculation")
           /\ HistoryTooShort(result.args.model, result.args.historical_data)

\* ========================================================= stock ledger
\* movements of product p1 of every type, of -2, -1 or +2 units
LedgerTransactions ==
    {t \in Transactions(TransactionTypes, {-2, -1, 2}, {0}) : t.product_id = "p1"}

LedgerRecordTransaction == RecordTransaction(LedgerTransactions)

\* get_total_inventory_for_product of one product
GetTotalInventoryForProduct ==
    /\ \E product_id \in ProductIds :
           result' = Called("get_total_inventory_for_product",
                            [product_id |-> product_id],
                            Ok(get_total_inventory_for_product(product_id)))
    /\ UNCHANGED <<products, iter_order, inventory, transactions, line_item>>

NextLedger ==
    \/ AddInventory
    \/ LedgerRecordTransaction
    \/ GetTotalInventoryForProduct

SpecLedger == Init /\ [][NextLedger]_vars

\* C15: a Shipment recorded against a snapshot holding at least |quantity|
\* on hand succeeds, takes exactly |quantity| off that snapshot's
\* quantity_on_hand and appends the transaction to the log.
C15_ShipmentDecrementsOnHand ==
    [][\A t \in LedgerTransactions :
          LET key == <<t.product_id, t.location_id>>
          IN (/\ record_transaction(t)
              /\ t.transaction_type = "Shipment"
              /\ HasSnapshot(key)
              /\ inventory[key].quantity_on_hand >= Abs(t.quantity))
             => /\ result'.ret.kind = "Ok"
                /\ inventory'[key].quantity_on_hand =
                       inventory[key].quantity_on_hand - Abs(t.quantity)
                /\ transactions' = Append(transactions, t)]_vars

\* C15 witness: the last call recorded a Shipment of 2 units against a
\* snapshot, which it left with stock on hand.
C15_Witness ==
    /\ result = Returned("record_transaction", Ok(<<>>))
    /\ transactions # <<>>
    /\ LET t == transactions[Len(transactions)]
           key == <<t.product_id, t.location_id>>
       IN /\ t.transaction_type = "Shipment"
          /\ Abs(t.quantity) = 2
          /\ HasSnapshot(key)
          /\ inventory[key].last_movement = t.timestamp
          /\ inventory[key].quantity_on_hand > 0

\* C27: a Shipment whose |quantity| exceeds the quantity_on_hand of the
\* snapshot it is recorded against returns a validation error and changes
\* nothing: every snapshot keeps its quantities and last_movement, and the
\* transaction is not appended to the log.
C27_RejectedShipmentChangesNothing ==
    [][\A t \in LedgerTransactions :
          LET key == <<t.product_id, t.location_id>>
          IN (/\ record_transaction(t)
              /\ t.transaction_type = "Shipment"
              /\ HasSnapshot(key)
              /\ inventory[key].quantity_on_hand < Abs(t.quantity))
             => /\ result' = Returned("record_transaction", Err("Validation"))
                /\ inventory' = inventory
                /\ transactions' = transactions]_vars

\* C27 witness: the last call was rejected, at a time when the log holds an
\* earlier movement and the snapshot of p1 at l1 has 1 unit on hand.
C27_Witness ==
    /\ result = Returned("record_transaction", Err("Validation"))
    /\ Len(transactions) = 1
    /\ HasSnapshot(<<"p1", "l1">>)
    /\ inventory[<<"p1", "l1">>].quantity_on_hand = 1
    /\ inventory[<<"p1", "l1">>].last_movement # NoMovement

\* ---------------------------------------------------------- reservations
\* InventorySnapshot::can_allocate
can_allocate(snapshot, quantity) == snapshot.quantity_available >= quantity

\* InventorySnapshot::reserve on the snapshot stored under key
reserve(key, quantity) ==
    /\ HasSnapshot(key)
    /\ IF ~can_allocate(inventory[key], quantity)
       THEN /\ result' = Returned("reserve", Err("Validation"))
            /\ UNCHANGED inventory
       ELSE /\ inventory' =
                  [inventory EXCEPT
                     ![key] = [@ EXCEPT !.quantity_available = @ - quantity,
                                        !.quantity_reserved = @ + quantity]]
            /\ result' = Returned("reserve", Ok(<<>>))
    /\ UNCHANGED <<products, iter_order, transactions, line_item>>

\* one snapshot, of product p1 at l1, and the receipts, returns, shipments
\* and adjustments recorded against it
ReserveKey == <<"p1", "l1">>
ReserveTransactions ==
    {t \in Transactions({"Receipt", "Return", "Shipment", "Adjustment"},
                        {-2, -1, 2}, {0}) :
       <<t.product_id, t.location_id>> = ReserveKey}

ReserveAddInventory ==
    \E snapshot \in Snapshots :
        /\ <<snapshot.product_id, snapshot.location_id>> = ReserveKey
        /\ add_inventory(WithAvailable(snapshot))

ReserveRecordTransaction == RecordTransaction(ReserveTransactions)

Reserve == \E quantity \in 1 .. 2 : reserve(ReserveKey, quantity)

NextReserve ==
    \/ ReserveAddInventory
    \/ ReserveRecordTransaction
    \/ Reserve

SpecReserve == Init /\ [][NextReserve]_vars

\* C28: a snapshot that starts with quantity_available = quantity_on_hand -
\* quantity_reserved still satisfies it after any sequence of
\* record_transaction calls (receipt, return, shipment, adjustment; accepted
\* or rejected) and reserve calls.
C28_AvailableIsOnHandMinusReserved ==
    \A key \in ProductIds \X LocationIds :
        HasSnapshot(key) =>
            inventory[key].quantity_available =
                inventory[key].quantity_on_hand - inventory[key].quantity_reserved

\* the weekly totals of product p, earliest calendar week first
CalendarSeries(p) == Chronological(p, ShipmentWeeks(p))

\* C16 (as claimed): with at least 2 weeks of data, forecast_demand reports a
\* negative trend_factor when the weekly shipment totals strictly decrease
\* from each calendar week to the next, and a positive one when they
\* strictly increase.
C16_TrendSignFollowsCalendar ==
    (ForecastCalled /\ Len(CalendarSeries(result.ret.value.product_id)) >= 2) =>
        LET series == CalendarSeries(result.ret.value.product_id)
        IN /\ StrictlyDecreasing(series) => result.ret.value.trend_factor[1] < 0
           /\ StrictlyIncreasing(series) => result.ret.value.trend_factor[1] > 0

\* C17 (as claimed): the analyses are read-only: a call of
\* perform_abc_analysis (like one of calculate_reorder_recommendations or
\* forecast_demand) leaves every field of every product, the snapshots and
\* the transaction log unchanged.
C17_AnalysesReadOnly ==
    [][PerformAbcAnalysis => UNCHANGED <<products, inventory, transactions>>]_vars

\* C18: the entries of the weekly demand series of a product are, one for
\* one, the sums of |quantity| over its Shipments of one (year, week) bucket;
\* no other transaction type contributes, and the series sums to the
\* product's total shipped quantity.
C18_WeeklySeriesSumsShipments ==
    WeeklyCalled =>
        LET p == result.args.product_id
            series == result.ret.value
        IN /\ Len(series) = Cardinality(ShipmentWeeks(p))
           /\ \A v \in {series[i] : i \in DOMAIN series}
                       \cup {WeekTotal(p, w) : w \in ShipmentWeeks(p)} :
                  Cardinality({i \in DOMAIN series : series[i] = v})
                      = Cardinality({w \in ShipmentWeeks(p) : WeekTotal(p, w) = v})
           /\ SeqSum(series) = SetSum(Shipped(p), DOMAIN Shipped(p))

\* C18 witness: a product with a receipt and two shipments (1 and 10 units)
\* in one week, whose series is the single total 11.
C18_Witness ==
    /\ WeeklyCalled
    /\ result.ret.value = <<11>>
    /\ \E i \in DOMAIN transactions :
           /\ transactions[i].product_id = result.args.product_id
           /\ transactions[i].transaction_type = "Receipt"

TotalCalled == result.op = "get_total_inventory_for_product"

\* the locations at which product p has a snapshot
SnapshotLocations(p) == {l \in LocationIds : HasSnapshot(<<p, l>>)}

\* inbound minus outbound quantity over the recorded movements of product p
NetMovement(p) ==
    SeqSum([i \in DOMAIN transactions |->
              LET t == transactions[i]
              IN IF t.product_id # p THEN 0
                 ELSE IF t.transaction_type \in {"Receipt", "Return"}
                 THEN Abs(t.quantity)
                 ELSE IF t.transaction_type = "Shipment" THEN -Abs(t.quantity)
                 ELSE IF t.transaction_type = "Adjustment" THEN t.quantity
                 ELSE 0])

\* C19 (as claimed): the total on-hand helper returns the sum of the
\* product's snapshots, and for a product without any snapshot the net
\* quantity of its movement history rather than 0.
C19_TotalFallsBackToHistory ==
    TotalCalled =>
        LET p == result.args.product_id
        IN IF SnapshotLocations(p) # {}
           THEN result.ret.value = StockOnHand(p)
           ELSE result.ret.value = NetMovement(p)

\* ============================================ safety stock of the planner
\* one product literal (unit cost 1, thresholds 0) and shipments of 4 units
\* in three consecutive weeks; no snapshots, so every product is at stock 0
SafetyLiterals == ProductLiterals({1}, {0})
SafetyTransactions ==
    {t \in Transactions({"Shipment"}, {-4}, {0, 7, 14}) : t.location_id = "l1"}

SafetyAddProduct == AddProduct(SafetyLiterals)

SafetyRecordTransaction ==
    /\ Len(transactions) < MaxHistory
    /\ \E transaction \in SafetyTransactions : record_transaction(transaction)

NextSafety ==
    \/ SafetyAddProduct
    \/ SafetyRecordTransaction
    \/ CalculateReorderRecommendations

SpecSafety == Init /\ [][NextSafety]_vars

\* sample variance of the weekly totals of product p (0 for a single week),
\* as a fraction
DemandVariance(p) ==
    LET series == CalendarSeries(p)
        n == Len(series)
        sum == SeqSum(series)
        sq == SeqSum([i \in 1 .. n |-> series[i] * series[i]])
    IN IF n < 2 THEN <<0, 1>> ELSE Rat(n * sq - sum * sum, n * (n - 1))

\* r is round(z * sqrt(combined_variance)) for z (in hundredths) and a
\* lead-time variability v, with combined_variance =
\* L * variance + variance * (L * v)^2
IsCalculatorResult(r, z, variance, lead_time_days, v) ==
    NearestToSqrt(r,
                  z * z * variance[1]
                    * (lead_time_days * v[2] * v[2]
                       + lead_time_days * lead_time_days * v[1] * v[1]),
                  10000 * variance[2] * v[2] * v[2])

\* C20 (as claimed): the safety_stock of every recommendation is the
\* SafetyStockCalculator result round(z * sqrt(combined_variance)) for the
\* item's demand variance and lead time, for some z of the service-level
\* table and some lead-time variability.
C20_SafetyStockIsCalculatorResult ==
    PlanReturned =>
        \A i \in DOMAIN result.ret.value :
            LET r == result.ret.value[i]
            IN \E z \in {309, 233, 165, 128, 104, 84}, v \in LeadTimeVariabilities :
                   IsCalculatorResult(r.safety_stock, z,
                                      DemandVariance(r.product_id),
                                      products[r.product_id].lead_time_days, v)

\* ============================================ models/order.rs: line items
\* OrderLineItem::new: the quantities and the status of a new line item, in
\* whole units
new_line_item(quantity) ==
    [quantity_ordered |-> quantity, quantity_shipped |-> 0,
     quantity_delivered |-> 0, status |-> "Pending"]

remaining_to_ship(item) == Max(item.quantity_ordered - item.quantity_shipped, 0)
remaining_to_deliver(item) ==
    Max(item.quantity_shipped - item.quantity_delivered, 0)
is_fully_shipped(item) == item.quantity_shipped >= item.quantity_ordered
is_fully_delivered(item) == item.quantity_delivered >= item.quantity_ordered

\* record_shipment without the test against the remaining quantity
record_shipment_unchecked(quantity) ==
    /\ IF quantity <= 0
       THEN /\ result' = Called("record_shipment", [quantity |-> quantity],
                                Err("Quantity must be positive"))
            /\ UNCHANGED line_item
       ELSE LET shipped == [line_item EXCEPT !.quantity_shipped = @ + quantity]
            IN /\ line_item' =
                      [shipped EXCEPT !.status =
                           IF is_fully_shipped(shipped) THEN "Shipped"
                           ELSE "PartiallyShipped"]
               /\ result' = Called("record_shipment", [quantity |-> quantity],
                                   Ok(<<>>))
    /\ UNCHANGED <<products, iter_order, inventory, transactions>>

\* OrderLineItem::record_shipment
record_shipment(quantity) ==
    /\ IF quantity <= 0
       THEN /\ result' = Called("record_shipment", [quantity |-> quantity],
                                Err("Quantity must be positive"))
            /\ UNCHANGED line_item
       ELSE IF quantity > remaining_to_ship(line_item)
       THEN /\ result' = Called("record_shipment", [quantity |-> quantity],
                                Err("Cannot ship"))
            /\ UNCHANGED line_item
       ELSE LET shipped == [line_item EXCEPT !.quantity_shipped = @ + quantity]
            IN /\ line_item' =
                      [shipped EXCEPT !.status =
                           IF is_fully_shipped(shipped) THEN "Shipped"
                           ELSE "PartiallyShipped"]
               /\ result' = Called("record_shipment", [quantity |-> quantity],
                                   Ok(<<>>))
    /\ UNCHANGED <<products, iter_order, inventory, transactions>>

\* OrderLineItem::record_delivery
record_delivery(quantity) ==
    /\ IF quantity <= 0
       THEN /\ result' = Called("record_delivery", [quantity |-> quantity],
                                Err("Quantity must be positive"))
            /\ UNCHANGED line_item
       ELSE IF quantity > remaining_to_deliver(line_item)
       THEN /\ result' = Called("record_delivery", [quantity |-> quantity],
                                Err("Cannot deliver"))
            /\ UNCHANGED line_item
       ELSE LET delivered == [line_item EXCEPT !.quantity_delivered = @ + quantity]
            IN /\ line_item' =
                      [delivered EXCEPT !.status =
                           IF is_fully_delivered(delivered) THEN "Delivered"
                           ELSE @]
               /\ result' = Called("record_delivery", [quantity |-> quantity],
                                   Ok(<<>>))
    /\ UNCHANGED <<products, iter_order, inventory, transactions>>

\* a line item for -1 .. MaxOrdered units, and calls with -1 .. MaxOrdered + 1
InitOrder ==
    /\ products = [p \in ProductIds |-> NoProduct]
    /\ iter_order = <<>>
    /\ inventory = [k \in ProductIds \X LocationIds |-> NoSnapshot]
    /\ transactions = <<>>
    /\ \E quantity \in -1 .. MaxOrdered : line_item = new_line_item(quantity)
    /\ result = Returned("new", Ok(<<>>))

RecordShipment == \E quantity \in -1 .. MaxOrdered + 1 : record_shipment(quantity)
RecordDelivery == \E quantity \in -1 .. MaxOrdered + 1 : record_delivery(quantity)

NextOrder ==
    \/ RecordShipment
    \/ RecordDelivery

SpecOrder == InitOrder /\ [][NextOrder]_vars

LineItemCalled == result.op \in {"record_shipment", "record_delivery"}

Fulfilment ==
    /\ 0 <= line_item.quantity_delivered
    /\ line_item.quantity_delivered <= line_item.quantity_shipped
    /\ line_item.quantity_shipped <= line_item.quantity_ordered

\* C30 (as claimed): for a line item that starts with nothing shipped or
\* delivered, after any sequence of record_shipment and record_delivery
\* calls, accepted or rejected,
\* 0 <= quantity_delivered <= quantity_shipped <= quantity_ordered.
C30_FulfilmentOrderAsClaimed == LineItemCalled => Fulfilment

\* C30 (amended): the same for a line item whose quantity_ordered is not
\* negative.
C30_FulfilmentOrder ==
    (LineItemCalled /\ line_item.quantity_ordered >= 0) => Fulfilment

\* C30 witness: after an accepted delivery the line item is shipped in full
\* and delivered in part.
C30_Witness ==
    /\ result.op = "record_delivery"
    /\ result.ret.kind = "Ok"
    /\ line_item.quantity_ordered = 3
    /\ line_item.quantity_shipped = 3
    /\ line_item.quantity_delivered = 2
    /\ line_item.status = "Shipped"

====
